---- MODULE Spec2Model ----
(***************************************************************************)
(* PayFlow open-banking broker (src/server.js; src/unnamed/part_000 is a   *)
(* variant of the same server with the same handlers).                     *)
(*                                                                         *)
(* The server is a single-threaded Node process.  A handler runs without   *)
(* interruption up to an `await` of the upstream fetch and from the answer *)
(* to its response, so every asynchronous handler is two actions (...Start *)
(* and ...Resume) with the suspended handler kept in `inflight`; the       *)
(* synchronous handlers (callback, list) are one action each.              *)
(*                                                                         *)
(* Strings that the code builds or tests by prefix are records             *)
(* [pfx, n]: `payment_${Date.now()}` is [pfx |-> "payment_", n |-> now].   *)
(* A value that is falsy in JavaScript (undefined, null, "", 0) is the     *)
(* empty string, the number 0 or the record Absent.                        *)
(***************************************************************************)
EXTENDS Naturals, Sequences, FiniteSets, Bags

\* ------------------------------------------------------------------ bounds
MaxRequests == 3       \* handler invocations in one behaviour
MaxTicks == 1          \* clock advances in one behaviour
StartMs == 1000        \* Date.now() when the server starts
TickMs == 1000         \* one clock advance, in milliseconds: into the next second

\* ------------------------------------------------------- program constants
ExpirySeconds == 3600  \* exp: now + 3600
MsPerSecond == 1000    \* Math.floor(Date.now() / 1000)

VARIABLES
  now,            \* Date.now()
  PRIVATE_KEY,    \* decoded key, "" when ENABLE_BANKING_PRIVATE_KEY is unset
  APP_ID,         \* "" when ENABLE_BANKING_APP_ID is unset
  heap,           \* the payment objects ever created; a reference is an index
  payments,       \* the Map, in insertion order: <<[key, ref], ...>>
  inflight,       \* handlers suspended at `await enableBankingRequest(...)`
  upstreamCalls,  \* fetch() calls issued
  mints,          \* tokens signed by generateJWT
  lastJWT,        \* payload of the token signed last
  started,        \* handler invocations so far
  budget,         \* requests the clients send in a run
  last            \* the step taken last: its request and its response

vars == <<now, PRIVATE_KEY, APP_ID, heap, payments, inflight, upstreamCalls,
          mints, lastJWT, started, budget, last>>

\* ------------------------------------------------------------------ values
Tok(p, k) == [pfx |-> p, n |-> k]
Absent == Tok("", 0)

Amounts == {100}
Codes == {"", "abc", "xyz"}
UpstreamPaymentIds == {Absent, Tok("p", 1)}
UpstreamSessionIds == {"", "s1"}
UpstreamStatuses == {"", "ACCP", "RJCT"}

ValidBody(a) ==
  [amount |-> a, creditorIban |-> "FI00", creditorName |-> "Jane Doe",
   reference |-> "inv", bankName |-> "Nordea", bankCountry |-> "FI"]

NoBody ==
  [amount |-> 0, creditorIban |-> "", creditorName |-> "",
   reference |-> "", bankName |-> "", bankCountry |-> ""]

\* req.body of POST /api/payments: complete, or with one field left out
PaymentBodies ==
  {ValidBody(a) : a \in Amounts}
    \cup {[ValidBody(100) EXCEPT ![f] = ""] :
            f \in {"creditorIban", "creditorName", "bankName", "bankCountry"}}
    \cup {[ValidBody(100) EXCEPT !.amount = 0]}

\* req.body of POST /api/connect
ConnectBodies ==
  {[NoBody EXCEPT !.bankName = "Nordea", !.bankCountry = "FI"],
   [NoBody EXCEPT !.bankName = "Nordea"],
   [NoBody EXCEPT !.bankCountry = "FI"]}

NoData == [payment_id |-> Absent, url |-> "", session_id |-> "", status |-> ""]

\* what the upstream answers: a parsed 2xx body, a non-2xx status, no answer
CreateAnswers ==
  {[kind |-> "ok", data |-> [NoData EXCEPT !.payment_id = p, !.url = "https://bank/auth",
                                           !.session_id = s]] :
     p \in UpstreamPaymentIds, s \in UpstreamSessionIds}
    \cup {[kind |-> k, data |-> NoData] : k \in {"httpError", "networkError"}}

StatusAnswers ==
  {[kind |-> "ok", data |-> [NoData EXCEPT !.status = s]] : s \in UpstreamStatuses}
    \cup {[kind |-> k, data |-> NoData] : k \in {"httpError", "networkError"}}

PlainAnswers ==
  {[kind |-> "ok", data |-> [NoData EXCEPT !.url = "https://bank/auth", !.session_id = "s1"]]}
    \cup {[kind |-> k, data |-> NoData] : k \in {"httpError", "networkError"}}

\* the ids a client asks for: the tokens of the first two clock values and
\* the upstream's payment id
PaymentTokens == {Tok("payment_", StartMs + k * TickMs) : k \in 0..1}
StatusIds == PaymentTokens \cup {Tok("p", 1)}

\* the query of GET /callback: every code with a payment token; no token, an
\* access token and an upstream payment id; and the same with an error
CallbackQueries ==
  {[code |-> c, state |-> s, error |-> ""] : c \in Codes, s \in PaymentTokens}
    \cup {[code |-> "abc", state |-> s, error |-> ""] :
             s \in {Absent, Tok("ais_", StartMs), Tok("p", 1)}}
    \cup {[code |-> "abc", state |-> s, error |-> "access_denied"] :
             s \in {Tok("payment_", StartMs), Tok("p", 1)}}
    \cup {[code |-> "", state |-> Absent, error |-> "access_denied"]}

NoEvent ==
  [op |-> "init", phase |-> "done", http |-> 0, id |-> Absent, body |-> <<>>,
   page |-> "", code |-> "", error |-> "", answer |-> "", data |-> NoData,
   stateId |-> Absent, req |-> NoBody, ref |-> 0]

NoJWT == [iat |-> 0, exp |-> 0]

\* ------------------------------------------------------------- the Map
RECURSIVE IndexOfKey(_, _, _)
IndexOfKey(m, k, i) ==
  IF i > Len(m) THEN 0
  ELSE IF m[i].key = k THEN i
  ELSE IndexOfKey(m, k, i + 1)

\* payments.get(id): the reference stored under id, 0 for undefined
MapGet(m, k) ==
  LET i == IndexOfKey(m, k, 1) IN IF i = 0 THEN 0 ELSE m[i].ref

\* payments.set(id, payment): an existing key keeps its place in the order
MapSet(m, k, r) ==
  LET i == IndexOfKey(m, k, 1)
  IN IF i = 0 THEN Append(m, [key |-> k, ref |-> r])
     ELSE [m EXCEPT ![i] = [key |-> k, ref |-> r]]

\* Array.from(payments.values())
MapValues(m, h) == [i \in 1..Len(m) |-> h[m[i].ref]]

\* ----------------------------------------------------------- generateJWT
CredentialsNeverMissing == FALSE

CredentialsMissing == PRIVATE_KEY = "" \/ APP_ID = ""

generateJWTCached ==
  IF mints = 0
  THEN LET t == now \div MsPerSecond IN [iat |-> t, exp |-> t + ExpirySeconds]
  ELSE lastJWT

generateJWT ==
  LET t == now \div MsPerSecond IN [iat |-> t, exp |-> t + ExpirySeconds]

\* --------------------------------------------------- POST /api/payments
RequiredMissingButCountry(b) ==
  \/ b.amount = 0
  \/ b.creditorIban = ""
  \/ b.creditorName = ""
  \/ b.bankName = ""

RequiredMissing(b) ==
  \/ b.amount = 0
  \/ b.creditorIban = ""
  \/ b.creditorName = ""
  \/ b.bankName = ""
  \/ b.bankCountry = ""

PaymentIdOfLocal(data, stateId) == stateId

PaymentIdOf(data, stateId) ==
  IF data.payment_id # Absent THEN data.payment_id ELSE stateId

NewPayment(paymentId, b, data, t) ==
  [id |-> paymentId, amount |-> b.amount, creditorIban |-> b.creditorIban,
   creditorName |-> b.creditorName, reference |-> b.reference,
   bankName |-> b.bankName, bankCountry |-> b.bankCountry,
   status |-> "pending", authUrl |-> data.url, createdAt |-> t,
   sessionId |-> data.session_id, authCode |-> ""]

Suspended(op, id, ref, b) == [op |-> op, id |-> id, ref |-> ref, req |-> b]

IssueUpstreamRetried(h) ==
  /\ mints' = mints + 2
  /\ lastJWT' = generateJWT
  /\ upstreamCalls' = upstreamCalls + 2
  /\ inflight' = inflight (+) SetToBag({h})

\* enableBankingRequest up to its await: sign a token, issue the fetch
IssueUpstream(h) ==
  /\ mints' = mints + 1
  /\ lastJWT' = generateJWT
  /\ upstreamCalls' = upstreamCalls + 1
  /\ inflight' = inflight (+) SetToBag({h})

NoUpstream == UNCHANGED <<mints, lastJWT, upstreamCalls, inflight>>

CreatePaymentStart(b) ==
  /\ started < budget
  /\ started' = started + 1
  /\ UNCHANGED <<now, PRIVATE_KEY, APP_ID, budget, heap, payments>>
  /\ IF RequiredMissing(b)
     THEN /\ NoUpstream
          /\ last' = [NoEvent EXCEPT !.op = "createPayment", !.http = 400, !.req = b]
     ELSE IF CredentialsMissing
     THEN /\ NoUpstream
          /\ last' = [NoEvent EXCEPT !.op = "createPayment", !.http = 500, !.req = b,
                                     !.stateId = Tok("payment_", now),
                                     !.answer = "signingError"]
     ELSE /\ IssueUpstream(Suspended("createPayment", Tok("payment_", now), 0, b))
          /\ last' = [NoEvent EXCEPT !.op = "createPayment", !.phase = "await", !.req = b,
                                     !.stateId = Tok("payment_", now)]

CreateStoresAlways(kind) == TRUE

\* enableBankingRequest throws on a non-2xx answer or a failed fetch, and the
\* throw skips payments.set
CreateStores(kind) == kind = "ok"

CreatePaymentResume(h, ans) ==
  /\ BagIn(h, inflight)
  /\ h.op = "createPayment"
  /\ ans \in CreateAnswers
  /\ inflight' = inflight (-) SetToBag({h})
  /\ UNCHANGED <<now, PRIVATE_KEY, APP_ID, budget, upstreamCalls, mints, lastJWT, started>>
  /\ LET paymentId == PaymentIdOf(ans.data, h.id)
         payment == NewPayment(paymentId, h.req, ans.data, now)
     IN IF CreateStores(ans.kind)
        THEN /\ heap' = Append(heap, payment)
             /\ payments' = MapSet(payments, paymentId, Len(heap) + 1)
             /\ last' = [NoEvent EXCEPT !.op = "createPayment", !.http = 200,
                                        !.id = paymentId, !.body = <<payment>>,
                                        !.req = h.req, !.stateId = h.id,
                                        !.answer = ans.kind, !.data = ans.data]
        ELSE /\ UNCHANGED <<heap, payments>>
             /\ last' = [NoEvent EXCEPT !.op = "createPayment", !.http = 500,
                                        !.req = h.req, !.stateId = h.id,
                                        !.answer = ans.kind]

\* ------------------------------------------------ GET /api/payments/:id
ShouldRequeryAlways(p) == TRUE

ShouldRequery(p) == p.sessionId # ""

ApplyStatusIfPending(p, data) ==
  IF data.status # "" /\ p.status = "pending" THEN [p EXCEPT !.status = data.status] ELSE p

ApplyStatus(p, data) ==
  IF data.status # "" THEN [p EXCEPT !.status = data.status] ELSE p

StatusHttpSurfaced(kind) == IF kind = "ok" THEN 200 ELSE 500

\* the inner catch logs the failure; res.json(payment) answers either way
StatusHttp(kind) == 200

GetStatusStart(id) ==
  /\ started < budget
  /\ started' = started + 1
  /\ UNCHANGED <<now, PRIVATE_KEY, APP_ID, budget, heap, payments>>
  /\ LET r == MapGet(payments, id)
     IN IF r = 0
        THEN /\ NoUpstream
             /\ last' = [NoEvent EXCEPT !.op = "getStatus", !.http = 404, !.id = id]
        ELSE IF ~ShouldRequery(heap[r])
        THEN /\ NoUpstream
             /\ last' = [NoEvent EXCEPT !.op = "getStatus", !.http = 200, !.id = id,
                                        !.body = <<heap[r]>>, !.ref = r]
        ELSE IF CredentialsMissing
        THEN /\ NoUpstream
             /\ last' = [NoEvent EXCEPT !.op = "getStatus",
                                        !.http = StatusHttp("signingError"), !.id = id,
                                        !.body = <<heap[r]>>, !.answer = "signingError",
                                        !.ref = r]
        ELSE /\ IssueUpstream(Suspended("getStatus", id, r, NoBody))
             /\ last' = [NoEvent EXCEPT !.op = "getStatus", !.phase = "await", !.id = id,
                                        !.ref = r]

GetStatusResume(h, ans) ==
  /\ BagIn(h, inflight)
  /\ h.op = "getStatus"
  /\ ans \in StatusAnswers
  /\ inflight' = inflight (-) SetToBag({h})
  /\ UNCHANGED <<now, PRIVATE_KEY, APP_ID, budget, upstreamCalls, mints, lastJWT, started>>
  /\ LET payment == IF ans.kind = "ok" THEN ApplyStatus(heap[h.ref], ans.data)
                    ELSE heap[h.ref]
     IN /\ IF ans.kind = "ok" /\ ans.data.status # ""
           THEN /\ heap' = [heap EXCEPT ![h.ref] = payment]
                /\ payments' = MapSet(payments, h.id, h.ref)
           ELSE UNCHANGED <<heap, payments>>
        /\ last' = [NoEvent EXCEPT !.op = "getStatus", !.http = StatusHttp(ans.kind),
                                   !.id = h.id, !.body = <<payment>>, !.answer = ans.kind,
                                   !.data = ans.data, !.ref = h.ref]

\* --------------------------------------------------- GET /api/payments
ListPayments ==
  /\ started < budget
  /\ started' = started + 1
  /\ UNCHANGED <<now, PRIVATE_KEY, APP_ID, budget, heap, payments, inflight, upstreamCalls,
                 mints, lastJWT>>
  /\ last' = [NoEvent EXCEPT !.op = "listPayments", !.http = 200,
                             !.body = MapValues(payments, heap)]

\* ---------------------------------------------------- POST /api/connect
ConnectMissing(b) == b.bankName = "" \/ b.bankCountry = ""

ConnectStart(b) ==
  /\ started < budget
  /\ started' = started + 1
  /\ UNCHANGED <<now, PRIVATE_KEY, APP_ID, budget, heap, payments>>
  /\ IF ConnectMissing(b)
     THEN /\ NoUpstream
          /\ last' = [NoEvent EXCEPT !.op = "connect", !.http = 400, !.req = b]
     ELSE IF CredentialsMissing
     THEN /\ NoUpstream
          /\ last' = [NoEvent EXCEPT !.op = "connect", !.http = 500, !.req = b,
                                     !.stateId = Tok("ais_", now),
                                     !.answer = "signingError"]
     ELSE /\ IssueUpstream(Suspended("connect", Tok("ais_", now), 0, b))
          /\ last' = [NoEvent EXCEPT !.op = "connect", !.phase = "await", !.req = b,
                                     !.stateId = Tok("ais_", now)]

ConnectStoreTracked(m, h, ans) ==
  IF ans.kind = "ok" /\ Len(m) > 0 THEN MapSet(m, h.id, m[1].ref) ELSE m

\* what POST /api/connect writes to the Map when the upstream has answered
ConnectStore(m, h, ans) == m

ConnectResume(h, ans) ==
  /\ BagIn(h, inflight)
  /\ h.op = "connect"
  /\ ans \in PlainAnswers
  /\ inflight' = inflight (-) SetToBag({h})
  /\ payments' = ConnectStore(payments, h, ans)
  /\ UNCHANGED <<now, PRIVATE_KEY, APP_ID, budget, heap, upstreamCalls, mints, lastJWT,
                 started>>
  /\ last' = [NoEvent EXCEPT !.op = "connect",
                             !.http = IF ans.kind = "ok" THEN 200 ELSE 500,
                             !.req = h.req, !.stateId = h.id,
                             !.answer = ans.kind, !.data = ans.data]

\* ----------------------------------------------- GET /api/banks/:country
BanksStart ==
  /\ started < budget
  /\ started' = started + 1
  /\ UNCHANGED <<now, PRIVATE_KEY, APP_ID, budget, heap, payments>>
  /\ IF CredentialsMissing
     THEN /\ NoUpstream
          /\ last' = [NoEvent EXCEPT !.op = "banks", !.http = 500,
                                     !.answer = "signingError"]
     ELSE /\ IssueUpstream(Suspended("banks", Absent, 0, NoBody))
          /\ last' = [NoEvent EXCEPT !.op = "banks", !.phase = "await"]

BanksResume(h, ans) ==
  /\ BagIn(h, inflight)
  /\ h.op = "banks"
  /\ ans \in PlainAnswers
  /\ inflight' = inflight (-) SetToBag({h})
  /\ UNCHANGED <<now, PRIVATE_KEY, APP_ID, budget, heap, payments, upstreamCalls, mints,
                 lastJWT, started>>
  /\ last' = [NoEvent EXCEPT !.op = "banks",
                             !.http = IF ans.kind = "ok" THEN 200 ELSE 500,
                             !.answer = ans.kind]

\* --------------------------------------------------------- GET /callback
CallbackIgnoresError(error) == FALSE

CallbackHasError(error) == error # ""

IsAnyState(state) == state # Absent

\* state && state.startsWith('payment_')
IsPaymentState(state) == state # Absent /\ state.pfx = "payment_"

\* for (const [id, payment] of payments) if (payment.id === state || id === state)
RECURSIVE FirstMatch(_, _, _, _)
FirstMatch(m, h, state, i) ==
  IF i > Len(m) THEN 0
  ELSE IF h[m[i].ref].id = state \/ m[i].key = state THEN i
  ELSE FirstMatch(m, h, state, i + 1)

AuthorizeOrFail(p, code) ==
  IF code = "" THEN [p EXCEPT !.status = "failed"]
  ELSE [p EXCEPT !.status = "authorized", !.authCode = code]

AuthorizeNoCode(p, code) == [p EXCEPT !.status = "authorized"]

Authorize(p, code) == [p EXCEPT !.status = "authorized", !.authCode = code]

Callback(code, state, error) ==
  /\ started < budget
  /\ started' = started + 1
  /\ UNCHANGED <<now, PRIVATE_KEY, APP_ID, budget, inflight, upstreamCalls, mints, lastJWT>>
  /\ IF CallbackHasError(error)
     THEN /\ UNCHANGED <<heap, payments>>
          /\ last' = [NoEvent EXCEPT !.op = "callback", !.http = 200, !.page = "failure",
                                     !.code = code, !.id = state, !.error = error]
     ELSE /\ LET i == IF IsPaymentState(state) THEN FirstMatch(payments, heap, state, 1)
                      ELSE 0
             IN IF i = 0
                THEN UNCHANGED <<heap, payments>>
                ELSE /\ heap' = [heap EXCEPT ![payments[i].ref] = Authorize(@, code)]
                     /\ payments' = MapSet(payments, payments[i].key, payments[i].ref)
          /\ last' = [NoEvent EXCEPT !.op = "callback", !.http = 200, !.page = "success",
                                     !.code = code, !.id = state, !.error = error]

\* ------------------------------------------------------------- the clock
Tick ==
  /\ now < StartMs + MaxTicks * TickMs
  /\ now' = now + TickMs
  /\ last' = [NoEvent EXCEPT !.op = "tick"]
  /\ UNCHANGED <<PRIVATE_KEY, APP_ID, budget, heap, payments, inflight, upstreamCalls, mints,
                 lastJWT, started>>

\* ---------------------------------------------------------- specification
Init ==
  /\ now = StartMs
  /\ PRIVATE_KEY \in {"", "key"}
  /\ APP_ID \in {"", "app"}
  /\ heap = <<>>
  /\ payments = <<>>
  /\ inflight = EmptyBag
  /\ upstreamCalls = 0
  /\ mints = 0
  /\ lastJWT = NoJWT
  /\ started = 0
  /\ budget = MaxRequests
  /\ last = NoEvent

Next ==
  \/ \E b \in PaymentBodies : CreatePaymentStart(b)
  \/ \E h \in BagToSet(inflight), ans \in CreateAnswers : CreatePaymentResume(h, ans)
  \/ \E id \in StatusIds : GetStatusStart(id)
  \/ \E h \in BagToSet(inflight), ans \in StatusAnswers : GetStatusResume(h, ans)
  \/ ListPayments
  \/ \E b \in ConnectBodies : ConnectStart(b)
  \/ \E h \in BagToSet(inflight), ans \in PlainAnswers : ConnectResume(h, ans)
  \/ BanksStart
  \/ \E h \in BagToSet(inflight), ans \in PlainAnswers : BanksResume(h, ans)
  \/ \E q \in CallbackQueries : Callback(q.code, q.state, q.error)
  \/ Tick

Spec == Init /\ [][Next]_vars

\* What the code schedules by itself: the clock runs.  A suspended handler
\* goes on only when its fetch settles; the options passed to fetch carry no
\* signal and no timer is set, so nothing in the program makes it settle and
\* the ...Resume steps, which are the upstream's, get no fairness.
FairSpec == Init /\ [][Next]_vars /\ WF_vars(Tick)

\* Two payments created, one status query and one redirect from the bank, all
\* for correlation tokens: one request more than Spec runs, over the inputs
\* of a payment flow only.
RaceCallbackQueries ==
  {[code |-> "abc", state |-> s, error |-> ""] : s \in PaymentTokens}

InitRace ==
  /\ now = StartMs
  /\ PRIVATE_KEY = "key"
  /\ APP_ID = "app"
  /\ heap = <<>>
  /\ payments = <<>>
  /\ inflight = EmptyBag
  /\ upstreamCalls = 0
  /\ mints = 0
  /\ lastJWT = NoJWT
  /\ started = 0
  /\ budget = MaxRequests + 1
  /\ last = NoEvent

NextRace ==
  \/ CreatePaymentStart(ValidBody(100))
  \/ \E h \in BagToSet(inflight), ans \in CreateAnswers : CreatePaymentResume(h, ans)
  \/ \E id \in PaymentTokens : GetStatusStart(id)
  \/ \E h \in BagToSet(inflight), ans \in StatusAnswers : GetStatusResume(h, ans)
  \/ \E q \in RaceCallbackQueries : Callback(q.code, q.state, q.error)
  \/ Tick

SpecRace == InitRace /\ [][NextRace]_vars

\* ------------------------------------------------------------ properties
StoreUnchanged == payments' = payments /\ heap' = heap
UpstreamUntouched ==
  upstreamCalls' = upstreamCalls /\ mints' = mints /\ inflight' = inflight

\* C1: a createPayment with every required field whose upstream call
\* succeeded answers 200 with an id that is the upstream's payment_id when
\* there is one and the correlation token otherwise; the store then holds a
\* pending session under that id, which get and list both find.
C1_CreateStoresPending ==
  (last.op = "createPayment" /\ last.answer = "ok") =>
    /\ last.http = 200
    /\ last.id = (IF last.data.payment_id = Absent THEN last.stateId
                  ELSE last.data.payment_id)
    /\ MapGet(payments, last.id) # 0
    /\ heap[MapGet(payments, last.id)].status = "pending"
    /\ heap[MapGet(payments, last.id)].id = last.id
    /\ \E i \in 1..Len(payments) :
         /\ MapValues(payments, heap)[i].id = last.id
         /\ MapValues(payments, heap)[i].status = "pending"

C1_Witness ==
  /\ last.op = "createPayment"
  /\ last.http = 200
  /\ last.data.payment_id = Absent
  /\ last.id = last.stateId
  /\ MapGet(payments, last.id) # 0

\* C2: a createPayment step whose body lacks amount, creditorIban,
\* creditorName, bankName or bankCountry answers 400, issues no upstream
\* call, signs no token and leaves the store as it was.
C2_MissingFieldRejected ==
  [][(/\ last'.op = "createPayment"
      /\ \/ last'.req.amount = 0
         \/ last'.req.creditorIban = ""
         \/ last'.req.creditorName = ""
         \/ last'.req.bankName = ""
         \/ last'.req.bankCountry = "")
       => (last'.http = 400 /\ UpstreamUntouched /\ StoreUnchanged)]_vars

C2_Witness ==
  /\ last.op = "createPayment"
  /\ last.http = 400
  /\ last.req.bankCountry = ""
  /\ last.req.amount # 0
  /\ ~CredentialsMissing

\* C3: an error-free callback whose payment-prefixed token is the id of a
\* stored pending session leaves that session authorized with the callback's
\* code; the Map and every other payment object are unchanged.
C3_CallbackAuthorizes ==
  [][(/\ last'.op = "callback"
      /\ last'.error = ""
      /\ last'.id.pfx = "payment_"
      /\ MapGet(payments, last'.id) # 0
      /\ heap[MapGet(payments, last'.id)].status = "pending")
       => LET r == MapGet(payments, last'.id)
          IN /\ heap'[r].status = "authorized"
             /\ heap'[r].authCode = last'.code
             /\ payments' = payments
             /\ Len(heap') = Len(heap)
             /\ \A j \in 1..Len(heap) : j # r => heap'[j] = heap[j]]_vars

C3_Witness ==
  /\ last.op = "callback"
  /\ last.error = ""
  /\ last.code = "abc"
  /\ Len(payments) = 2
  /\ MapGet(payments, last.id) # 0
  /\ heap[MapGet(payments, last.id)].status = "authorized"
  /\ heap[MapGet(payments, last.id)].authCode = "abc"
  /\ \E i \in 1..2 : heap[payments[i].ref].status = "pending"

\* C4 (as claimed): once a callback has recorded a code for a session, a
\* later error-free callback with the same token leaves the session
\* authorized and the recorded code as it was.
C4_ReplayKeepsCode ==
  [][(/\ last'.op = "callback"
      /\ last'.error = ""
      /\ last'.id.pfx = "payment_"
      /\ MapGet(payments, last'.id) # 0
      /\ heap[MapGet(payments, last'.id)].authCode # "")
       => LET r == MapGet(payments, last'.id)
          IN /\ heap'[r].status = "authorized"
             /\ heap'[r].authCode = heap[r].authCode]_vars

\* C5: a callback carrying an error renders the failure page and changes no
\* session, whatever code and token come with it.
C5_ErrorCallbackFrame ==
  [][(last'.op = "callback" /\ last'.error # "")
       => (last'.page = "failure" /\ StoreUnchanged)]_vars

C5_Witness ==
  /\ last.op = "callback"
  /\ last.error # ""
  /\ last.page = "failure"
  /\ last.id.pfx = "payment_"
  /\ MapGet(payments, last.id) # 0
  /\ heap[MapGet(payments, last.id)].status = "pending"

\* C6: getStatus for an id that is not in the store answers 404, and for a
\* stored session without an upstream session id answers that session, both
\* without an upstream call and with the store unchanged; a getStatus issues
\* an upstream call only for a stored session that has an upstream session id.
C6_StatusWithoutUpstream ==
  [][(last'.op = "getStatus" /\ started' # started)
       => LET r == MapGet(payments, last'.id)
          IN /\ r = 0 => (last'.http = 404 /\ UpstreamUntouched /\ StoreUnchanged)
             /\ (r # 0 /\ heap[r].sessionId = "")
                  => /\ last'.http = 200
                     /\ last'.body = <<heap[r]>>
                     /\ UpstreamUntouched
                     /\ StoreUnchanged
             /\ upstreamCalls' # upstreamCalls => (r # 0 /\ heap[r].sessionId # "")]_vars

C6_Witness ==
  /\ last.op = "getStatus"
  /\ last.http = 200
  /\ last.answer = ""
  /\ ~CredentialsMissing
  /\ last.body = <<heap[MapGet(payments, last.id)]>>
  /\ last.body[1].sessionId = ""

\* C7: when the upstream answers a getStatus re-query with a status string,
\* the session stored under the id has that string as its state afterwards
\* and the response shows it, whatever the state was; with no status in the
\* answer the store is unchanged.
C7_UpstreamStatusOverwrites ==
  [][(last'.op = "getStatus" /\ last'.answer = "ok")
       => IF last'.data.status # ""
          THEN /\ MapGet(payments', last'.id) # 0
               /\ heap'[MapGet(payments', last'.id)].status = last'.data.status
               /\ last'.body[1].status = last'.data.status
          ELSE StoreUnchanged]_vars

C7_Witness ==
  /\ last.op = "getStatus"
  /\ last.answer = "ok"
  /\ last.data.status = "ACCP"
  /\ heap[MapGet(payments, last.id)].status = "ACCP"
  /\ heap[MapGet(payments, last.id)].authCode = "abc"

\* C8: when the re-query of a getStatus fails (no token can be signed, the
\* upstream answers a non-success status, or the transport fails), getStatus
\* answers 200 with the session as it was read and the store is unchanged.
C8_RequeryFailureSwallowed ==
  [][(last'.op = "getStatus"
      /\ last'.answer \in {"signingError", "httpError", "networkError"})
       => /\ last'.http = 200
          /\ last'.body = <<heap[last'.ref]>>
          /\ StoreUnchanged]_vars

C8_Witness ==
  /\ last.op = "getStatus"
  /\ last.answer = "networkError"
  /\ last.http = 200
  /\ last.body[1].status = "authorized"

\* C9: an error-free callback whose token is absent, is not payment-prefixed
\* or matches no stored session renders the success page and changes no
\* session.
C9_OrphanCallbackFrame ==
  [][(/\ last'.op = "callback"
      /\ last'.error = ""
      /\ \/ last'.id = Absent
         \/ last'.id.pfx # "payment_"
         \/ \A i \in 1..Len(payments) :
              payments[i].key # last'.id /\ heap[payments[i].ref].id # last'.id)
       => (last'.http = 200 /\ last'.page = "success" /\ StoreUnchanged)]_vars

C9_Witness ==
  /\ last.op = "callback"
  /\ last.error = ""
  /\ last.page = "success"
  /\ last.id = Tok("p", 1)
  /\ MapGet(payments, last.id) # 0
  /\ heap[MapGet(payments, last.id)].status = "pending"

\* C10: no step of createAccessConnection (rejected, failed or answered by
\* the upstream) changes the store, and neither does a callback that carries
\* an ais_ token.
C10_AccessNeverStored ==
  [][(\/ last'.op = "connect"
      \/ last'.op = "callback" /\ last'.id.pfx = "ais_")
       => StoreUnchanged]_vars

C10_Witness ==
  /\ last.op = "connect"
  /\ last.http = 200
  /\ last.stateId.pfx = "ais_"
  /\ Len(payments) > 0

\* C11: a createPayment whose upstream call fails (no token can be signed,
\* the upstream answers a non-success status, or the transport fails)
\* answers 500 and leaves the store as it was.
C11_CreateFailureStoresNothing ==
  [][(/\ last'.op = "createPayment"
      /\ last'.answer \in {"signingError", "httpError", "networkError"})
       => (last'.http = 500 /\ last'.body = <<>> /\ StoreUnchanged)]_vars

C11_Witness ==
  /\ last.op = "createPayment"
  /\ last.answer = "httpError"
  /\ last.http = 500
  /\ Len(payments) = 1

\* C12: while the private key or the application id is missing, no step
\* issues an upstream request or signs a token, and every handler invocation
\* that gets as far as enableBankingRequest (list banks, createPayment and
\* createAccessConnection with their fields present, getStatus of a stored
\* session with an upstream session id) answers 500.
C12_NoUnsignedCall ==
  [][(PRIVATE_KEY = "" \/ APP_ID = "")
       => /\ upstreamCalls' = upstreamCalls
          /\ mints' = mints
          /\ inflight' = inflight
          /\ (/\ started' # started
              /\ \/ last'.op = "banks"
                 \/ /\ last'.op = "createPayment"
                    /\ last'.req.amount # 0
                    /\ last'.req.creditorIban # ""
                    /\ last'.req.creditorName # ""
                    /\ last'.req.bankName # ""
                    /\ last'.req.bankCountry # ""
                 \/ /\ last'.op = "connect"
                    /\ last'.req.bankName # ""
                    /\ last'.req.bankCountry # ""
                 \/ /\ last'.op = "getStatus"
                    /\ MapGet(payments, last'.id) # 0
                    /\ heap[MapGet(payments, last'.id)].sessionId # "")
               => last'.http = 500]_vars

C12_Witness ==
  /\ PRIVATE_KEY = ""
  /\ APP_ID # ""
  /\ last.op = "createPayment"
  /\ last.answer = "signingError"
  /\ last.http = 500
  /\ upstreamCalls = 0

\* C13: a fetch is issued only by the step that starts a request, and one at
\* most; the step that handles the upstream's answer, failure included,
\* issues none, so the fetches never outnumber the requests.
C13_NoRetry ==
  [][/\ upstreamCalls' <= upstreamCalls + 1
     /\ upstreamCalls' # upstreamCalls
          => (started' = started + 1 /\ last'.phase = "await")
     /\ last'.answer \in {"httpError", "networkError"}
          => (upstreamCalls' = upstreamCalls /\ started' = started)
     /\ upstreamCalls' <= started']_vars

C13_Witness ==
  /\ last.op = "createPayment"
  /\ last.answer = "networkError"
  /\ last.http = 500
  /\ upstreamCalls = 1
  /\ inflight = EmptyBag

\* C14 (as claimed): once a session's state is 'authorized' or 'failed', no
\* step changes that session's state.
C14_TerminalStates ==
  [][\A r \in 1..Len(heap) :
       heap[r].status \in {"authorized", "failed"}
         => heap'[r].status = heap[r].status]_vars

\* C14 (amended): once a session's state is 'authorized', it changes only in
\* a getStatus of that session that the upstream answers with a status; no
\* callback and no createPayment changes it.
C14_AuthorizedUntilPolled ==
  [][\A r \in 1..Len(heap) :
       (heap[r].status = "authorized" /\ heap'[r].status # "authorized")
         => /\ last'.op = "getStatus"
            /\ last'.answer = "ok"
            /\ last'.data.status # ""
            /\ last'.ref = r
            /\ heap'[r].status = last'.data.status]_vars

C14_Witness ==
  /\ last.op = "getStatus"
  /\ last.answer = "ok"
  /\ last.data.status = "RJCT"
  /\ heap[MapGet(payments, last.id)].status = "RJCT"
  /\ heap[MapGet(payments, last.id)].authCode = "xyz"

\* C15 (as claimed): a callback that carries an error and the token of a
\* stored pending session leaves that session 'failed'.
C15_ErrorCallbackFails ==
  [][(/\ last'.op = "callback"
      /\ last'.error # ""
      /\ MapGet(payments, last'.id) # 0
      /\ heap[MapGet(payments, last'.id)].status = "pending")
       => heap'[MapGet(payments', last'.id)].status = "failed"]_vars

\* C15 (amended): a callback that carries an error and the token of a stored
\* pending session leaves that session 'pending', with no code recorded; no
\* callback ever sets a session's state to 'failed'.
C15_ErrorCallbackKeepsPending ==
  [][/\ (/\ last'.op = "callback"
         /\ last'.error # ""
         /\ MapGet(payments, last'.id) # 0
         /\ heap[MapGet(payments, last'.id)].status = "pending")
          => /\ heap'[MapGet(payments', last'.id)].status = "pending"
             /\ heap'[MapGet(payments', last'.id)].authCode =
                  heap[MapGet(payments, last'.id)].authCode
     /\ last'.op = "callback"
          => \A r \in 1..Len(heap) :
               heap'[r].status = "failed" => heap[r].status = "failed"]_vars

C15_Witness ==
  /\ last.op = "callback"
  /\ last.error = "access_denied"
  /\ last.code = "abc"
  /\ last.id = Tok("payment_", StartMs)
  /\ MapGet(payments, last.id) # 0
  /\ heap[MapGet(payments, last.id)].status = "pending"
  /\ heap[MapGet(payments, last.id)].authCode = ""

\* C16 (as claimed): a callback sets a session's state to 'authorized' only
\* when it carries a code and no error, and the session it authorizes then
\* has a code recorded.
C16_AuthorizeNeedsCode ==
  [][last'.op = "callback"
       => \A r \in 1..Len(heap) :
            (heap[r].status # "authorized" /\ heap'[r].status = "authorized")
              => /\ last'.code # ""
                 /\ last'.error = ""
                 /\ heap'[r].authCode # ""]_vars

\* C17 (as claimed): an error-free callback that follows a successful
\* createPayment and echoes the correlation token sent upstream in that
\* creation leaves the session that creation stored 'authorized' with the
\* callback's code, whichever id the session is stored under.
C17_TokenRoundTrip ==
  [][(/\ last.op = "createPayment"
      /\ last.http = 200
      /\ last'.op = "callback"
      /\ last'.error = ""
      /\ last'.id = last.stateId)
       => /\ heap'[MapGet(payments', last.id)].status = "authorized"
          /\ heap'[MapGet(payments', last.id)].authCode = last'.code]_vars

\* C18 (as claimed): the correlation token a createPayment generates is the
\* token of no creation still awaiting the upstream and the key of no stored
\* session, and a successful creation stores its session under an id that
\* was not in the store.
C18_TokensUnique ==
  [][/\ (last'.op = "createPayment" /\ started' # started /\ last'.stateId # Absent)
          => /\ \A h \in BagToSet(inflight) :
                  h.op = "createPayment" => h.id # last'.stateId
             /\ MapGet(payments, last'.stateId) = 0
     /\ (last'.op = "createPayment" /\ last'.http = 200)
          => MapGet(payments, last'.id) = 0]_vars

\* C19 (as claimed): every id in the store keeps the amount, creditor, bank,
\* upstream session id and creation time that its session had in the state
\* before, in every step.
C19_DetailsImmutable ==
  [][\A i \in 1..Len(payments) :
       /\ payments'[i].key = payments[i].key
       /\ heap'[payments'[i].ref].amount = heap[payments[i].ref].amount
       /\ heap'[payments'[i].ref].creditorIban = heap[payments[i].ref].creditorIban
       /\ heap'[payments'[i].ref].creditorName = heap[payments[i].ref].creditorName
       /\ heap'[payments'[i].ref].bankName = heap[payments[i].ref].bankName
       /\ heap'[payments'[i].ref].bankCountry = heap[payments[i].ref].bankCountry
       /\ heap'[payments'[i].ref].sessionId = heap[payments[i].ref].sessionId
       /\ heap'[payments'[i].ref].createdAt = heap[payments[i].ref].createdAt]_vars

\* C20: every step that issues an upstream request signs exactly one token
\* in that step, whose iat is the clock of that step in seconds and whose
\* exp is iat + 3600, later than iat; no other step signs a token, so the
\* tokens signed are as many as the requests issued.
C20_FreshAssertionPerCall ==
  [][/\ upstreamCalls' # upstreamCalls
          => /\ upstreamCalls' = upstreamCalls + 1
             /\ mints' = mints + 1
             /\ lastJWT'.iat = now' \div 1000
             /\ lastJWT'.exp = lastJWT'.iat + 3600
             /\ lastJWT'.exp > lastJWT'.iat
     /\ upstreamCalls' = upstreamCalls => (mints' = mints /\ lastJWT' = lastJWT)
     /\ mints' = upstreamCalls']_vars

C20_Witness ==
  /\ mints = 2
  /\ upstreamCalls = 2
  /\ now = StartMs + TickMs
  /\ lastJWT.iat = now \div MsPerSecond
  /\ lastJWT.iat > StartMs \div MsPerSecond
  /\ last.phase = "await"

\* C21: every stored session is a record with all twelve fields in every
\* state, however getStatus calls on one id interleave; the step in which a
\* getStatus handles an upstream answer that reports a status leaves the
\* session stored under the id with that status (the answer handled last
\* wins), changes no other field of the session it read and touches no other
\* session; an answer without a status, or a failure, changes nothing.
C21_ConcurrentStatusLastWriterWins ==
  [][/\ \A i \in 1..Len(payments') :
          DOMAIN heap'[payments'[i].ref] =
            {"id", "amount", "creditorIban", "creditorName", "reference", "bankName",
             "bankCountry", "status", "authUrl", "createdAt", "sessionId", "authCode"}
     /\ (last'.op = "getStatus" /\ started' = started)
          => /\ IF last'.answer = "ok" /\ last'.data.status # ""
                THEN heap'[MapGet(payments', last'.id)].status = last'.data.status
                ELSE StoreUnchanged
             /\ Len(heap') = Len(heap)
             /\ [heap'[last'.ref] EXCEPT !.status = heap[last'.ref].status]
                  = heap[last'.ref]
             /\ \A r \in 1..Len(heap) : r # last'.ref => heap'[r] = heap[r]]_vars

\* one getStatus has just written its upstream status to the session while
\* another getStatus of the same id is still awaiting its answer
C21_Witness ==
  /\ last.op = "getStatus"
  /\ last.answer = "ok"
  /\ last.data.status = "RJCT"
  /\ heap[MapGet(payments, last.id)].status = "RJCT"
  /\ \E h \in BagToSet(inflight) : h.op = "getStatus" /\ h.id = last.id
  /\ upstreamCalls = 3

\* C22 (as claimed): whenever handlers are suspended awaiting the upstream,
\* eventually all of them have sent their response, whether or not the
\* upstream answers.
C22_EveryRequestAnswered == (inflight # EmptyBag) ~> (inflight = EmptyBag)

\* C23 (as claimed): a status query never loses an authorization code: when
\* the session stored under an id carries an authCode, the step in which a
\* getStatus for that id resumes and writes leaves the session stored under
\* the id with that same authCode.
C23_AuthCodeSurvivesStatus ==
  [][(/\ last'.op = "getStatus"
      /\ started' = started
      /\ MapGet(payments, last'.id) # 0
      /\ heap[MapGet(payments, last'.id)].authCode # "")
       => heap'[MapGet(payments', last'.id)].authCode
            = heap[MapGet(payments, last'.id)].authCode]_vars

====
